---- MODULE Spec2Model ----
(***************************************************************************)
(* Model of src/src/components/PlantScanner.tsx: the PlantScanner          *)
(* component's state (isScanning, imagePreview, result), its two handlers  *)
(* (handleImageCapture, handleClear) and the asynchronous steps of a scan  *)
(* attempt (preview read, encode read, fetch, response.json()).            *)
(*                                                                         *)
(* One action is one run-to-completion piece of JavaScript: an event       *)
(* handler up to its first await, or the continuation after an await up to *)
(* the next one.                                                           *)
(***************************************************************************)
EXTENDS Integers, Sequences, FiniteSets, TLC

VARIABLES
    isScanning,     \* useState(false), line 20
    imagePreview,   \* useState<string | null>(null), line 21
    result,         \* useState<PlantIdentification | null>(null), line 22
    inputValue,     \* fileInputRef.current.value, lines 23, 99, 128-135
    toasts,         \* the calls made to toast() since the latest capture
    tasks,          \* one record per accepted capture: the async work it started
    cancels         \* number of change events delivered without a file

vars == <<isScanning, imagePreview, result, inputValue, toasts, tasks, cancels>>

(***************************************************************************)
(* Bounds of the model.                                                    *)
(***************************************************************************)
MaxCaptures == 2
MaxCancels == 1
MaxSuggestions == 2

(***************************************************************************)
(* Values.                                                                 *)
(***************************************************************************)
\* JavaScript null and undefined.
Null == [null |-> TRUE]
Undefined == [undefined |-> TRUE]

\* The files the user can pick; NoFile is event.target.files being empty.
Files == {"leaf.jpg", "bark.jpg"}
NoFile == ""

\* A JavaScript array holding the elements of the sequence s.
Array(s) == [array |-> s]

\* reader.result of a successful readAsDataURL(file).
DataURL(f) == [dataUrl |-> f]

\* HTTP statuses the service may answer with; fetch resolves for all of them.
Statuses == {200, 401}

\* Probabilities are kept in ten-thousandths (9700 is 0.97, 1234 is 0.1234).
FullDetails ==
    [common_names |-> Array(<<"Swiss cheese plant">>),
     wiki_description |-> [value |-> "A climbing plant."],
     taxonomy |-> [family |-> "Araceae", genus |-> "Monstera"]]

PartialDetails ==
    [common_names |-> Undefined,
     wiki_description |-> Undefined,
     taxonomy |-> [family |-> "Lamiaceae", genus |-> "Ocimum"]]

NamesOnlyDetails ==
    [common_names |-> Array(<<"Neem">>),
     wiki_description |-> Undefined,
     taxonomy |-> Undefined]

\* The elements a suggestion list can hold: objects with all, some or none
\* of the detail blocks, with a high, a low or a zero probability, or a
\* JSON null.
Suggestions ==
    {[plant_name |-> "Monstera deliciosa", probability |-> 9700,
      plant_details |-> FullDetails],
     [plant_name |-> "Ocimum tenuiflorum", probability |-> 0,
      plant_details |-> PartialDetails],
     [plant_name |-> "Ficus religiosa", probability |-> 1234,
      plant_details |-> Undefined],
     [plant_name |-> "Azadirachta indica", probability |-> 5000,
      plant_details |-> NamesOnlyDetails],
     Null}

SuggestionLists ==
    UNION {[1..n -> Suggestions] : n \in 0..MaxSuggestions}

\* The values response.json() can resolve with.
Bodies ==
    {Null, [suggestions |-> Undefined]}
        \cup {[suggestions |-> Array(s)] : s \in SuggestionLists}

TitleIdentified == "Plant Identified!"
TitleNoMatch == "No Match Found"
TitleError == "Error"

(***************************************************************************)
(* Pure parts of handleImageCapture.                                       *)
(***************************************************************************)
\* data?.suggestions?.length > 0
HasSuggestions(data) ==
    /\ data # Null
    /\ data.suggestions # Undefined
    /\ Len(data.suggestions.array) > 0

\* Variant of TopResult that re-ranks: the non-null element of the highest
\* probability instead of the first element.
TopResult_Reranked(data) ==
    LET list == data.suggestions.array
        objs == {i \in 1..Len(list) : list[i] # Null}
    IN
    IF list[1] = Null
    THEN Null
    ELSE list[CHOOSE i \in objs :
                \A j \in objs : list[j].probability <= list[i].probability]

\* const topResult = data.suggestions[0]
TopResult(data) == data.suggestions.array[1]

\* Variant of NormalizeThrows for topResult.plant_details.common_names
\* written without optional chaining: it also throws when plant_details is
\* missing.
NormalizeThrows_NoOptionalChaining(data) ==
    \/ TopResult(data) = Null
    \/ TopResult(data).plant_details = Undefined

\* Reading a property of topResult throws a TypeError when it is null.
NormalizeThrows(data) == TopResult(data) = Null

\* topResult.plant_details?.<field>
DetailField(top, field) ==
    IF top.plant_details = Undefined
    THEN Undefined
    ELSE top.plant_details[field]

\* The object passed to setResult; capture is the attempt that stored it.
Normalize(data, a) ==
    LET top == TopResult(data) IN
    [capture |-> a,
     common_names |->
        IF DetailField(top, "common_names") = Undefined
        THEN Array(<<>>)
        ELSE DetailField(top, "common_names"),
     scientific_name |-> top.plant_name,
     probability |-> top.probability,
     wiki_description |-> DetailField(top, "wiki_description"),
     taxonomy |-> DetailField(top, "taxonomy")]

(***************************************************************************)
(* The result card, lines 163-191.                                         *)
(***************************************************************************)
\* result.common_names?.length > 0 &&
ShowsCommonNames(r) == Len(r.common_names.array) > 0

\* result.probability && : a number is falsy when it is 0.  (React then
\* renders the 0 itself in place of the confidence paragraph.)
ShowsConfidence(r) == r.probability # 0

\* x.toFixed(1) for x given in hundredths: the number of tenths nearest to x.
ToFixed1(hundredths) == (hundredths + 5) \div 10

\* (result.probability * 100).toFixed(1) followed by "%": a probability of
\* n ten-thousandths times 100 is n hundredths.
ConfidenceText(r) == [tenths |-> ToFixed1(r.probability), unit |-> "%"]

\* What lines 172-179 render.
Confidence(r) ==
    IF ShowsConfidence(r) THEN ConfidenceText(r) ELSE [notRendered |-> TRUE]

\* result.taxonomy &&
ShowsTaxonomy(r) == r.taxonomy # Undefined

\* result.wiki_description?.value &&
ShowsDescription(r) ==
    /\ r.wiki_description # Undefined
    /\ r.wiki_description.value # Undefined

\* Variant of ToastTitle whose else branch reports the generic error.
ToastTitle_NoMatchAsError(data) ==
    IF HasSuggestions(data)
    THEN IF NormalizeThrows(data) THEN TitleError ELSE TitleIdentified
    ELSE TitleError

\* The title of the toast the try block or the catch block emits for data.
ToastTitle(data) ==
    IF HasSuggestions(data)
    THEN IF NormalizeThrows(data) THEN TitleError ELSE TitleIdentified
    ELSE TitleNoMatch

(***************************************************************************)
(* State helpers.                                                          *)
(***************************************************************************)
Attempts == 1..Len(tasks)

NewTask(f) ==
    [file |-> f,
     preview |-> "reading",     \* the FileReader of lines 43-45
     pc |-> "encoding",         \* where the async function is suspended
     settle |-> "pending",      \* how the attempt's awaits settled
     status |-> 0,              \* HTTP status of the response, 0 before it
     nsugg |-> -1,              \* length of the suggestion list, -1 if none
     first |-> Undefined,       \* first element of the suggestion list
     cleared |-> FALSE]         \* handleClear ran while the attempt was pending

\* The bookkeeping fields (settle, status, nsugg, first, cleared) and the
\* toasts describe the latest attempt only: a finished attempt's are reset
\* when the next capture is accepted.
Retire(t) ==
    IF t.pc = "done"
    THEN [t EXCEPT !.settle = "retired", !.status = 0, !.nsugg = -1,
                   !.first = Undefined, !.cleared = FALSE]
    ELSE t

Toast(a, title) == Append(toasts, [attempt |-> a, title |-> title])

\* Variant of TriggerEnabled: the button is never disabled.
TriggerEnabled_Always == TRUE

\* disabled={isScanning} on the button that opens the picker
TriggerEnabled == ~isScanning

Init ==
    /\ isScanning = FALSE
    /\ imagePreview = Null
    /\ result = Null
    /\ inputValue = NoFile
    /\ toasts = <<>>
    /\ tasks = <<>>
    /\ cancels = 0

(***************************************************************************)
(* handleImageCapture, up to its first await.                              *)
(***************************************************************************)
\* Variant of HandleImageCapture without the setResult(null) of line 41.
HandleImageCapture_KeepsResult(f) ==
    IF f = NoFile
    THEN /\ cancels < MaxCancels
         /\ cancels' = cancels + 1
         /\ UNCHANGED <<isScanning, imagePreview, result, toasts, tasks>>
    ELSE /\ Len(tasks) < MaxCaptures
         /\ isScanning' = TRUE
         /\ tasks' = Append([a \in Attempts |-> Retire(tasks[a])], NewTask(f))
         /\ toasts' = <<>>
         /\ UNCHANGED <<imagePreview, result, cancels>>

\* Variant of HandleImageCapture that tests for the file after lines 40-41.
HandleImageCapture_FlagBeforeCheck(f) ==
    IF f = NoFile
    THEN /\ cancels < MaxCancels
         /\ cancels' = cancels + 1
         /\ isScanning' = TRUE
         /\ result' = Null
         /\ UNCHANGED <<imagePreview, toasts, tasks>>
    ELSE /\ Len(tasks) < MaxCaptures
         /\ isScanning' = TRUE
         /\ result' = Null
         /\ tasks' = Append([a \in Attempts |-> Retire(tasks[a])], NewTask(f))
         /\ toasts' = <<>>
         /\ UNCHANGED <<imagePreview, cancels>>

HandleImageCapture(f) ==
    IF f = NoFile
    THEN /\ cancels < MaxCancels
         /\ cancels' = cancels + 1
         /\ UNCHANGED <<isScanning, imagePreview, result, toasts, tasks>>
    ELSE /\ Len(tasks) < MaxCaptures
         /\ isScanning' = TRUE
         /\ result' = Null
         /\ tasks' = Append([a \in Attempts |-> Retire(tasks[a])], NewTask(f))
         /\ toasts' = <<>>
         /\ UNCHANGED <<imagePreview, cancels>>

\* The change event of the file input: the picker closed with f chosen.
ChangeEvent(f) ==
    /\ TriggerEnabled
    /\ inputValue' = f
    /\ HandleImageCapture(f)

\* reader.onloadend of the preview reader: ok is whether the read succeeded.
PreviewLoadEnd(a, ok) ==
    /\ tasks[a].preview = "reading"
    /\ imagePreview' = IF ok THEN DataURL(tasks[a].file) ELSE Null
    /\ tasks' = [tasks EXCEPT ![a].preview = "loaded"]
    /\ UNCHANGED <<isScanning, result, inputValue, toasts, cancels>>

(***************************************************************************)
(* The continuations of handleImageCapture.                                *)
(***************************************************************************)
\* Variant of CatchFinally without the finally block.
CatchFinally_NoFinally(a, how) ==
    /\ toasts' = Toast(a, TitleError)
    /\ tasks' = [tasks EXCEPT ![a].pc = "done", ![a].settle = how]
    /\ UNCHANGED <<isScanning, imagePreview, result, inputValue, cancels>>

\* Variant of CatchFinally whose catch block only logs to the console.
CatchFinally_Silent(a, how) ==
    /\ isScanning' = FALSE
    /\ tasks' = [tasks EXCEPT ![a].pc = "done", ![a].settle = how]
    /\ UNCHANGED <<imagePreview, result, inputValue, toasts, cancels>>

\* catch block followed by finally block
CatchFinally(a, how) ==
    /\ toasts' = Toast(a, TitleError)
    /\ isScanning' = FALSE
    /\ tasks' = [tasks EXCEPT ![a].pc = "done", ![a].settle = how]
    /\ UNCHANGED <<imagePreview, result, inputValue, cancels>>

\* convertImageToBase64 resolved: fetch is called
EncodeResolve(a) ==
    /\ tasks[a].pc = "encoding"
    /\ tasks' = [tasks EXCEPT ![a].pc = "fetching"]
    /\ UNCHANGED <<isScanning, imagePreview, result, inputValue, toasts, cancels>>

\* convertImageToBase64 rejected (reader.onerror)
EncodeReject(a) ==
    /\ tasks[a].pc = "encoding"
    /\ CatchFinally(a, "encodeReject")

\* fetch resolved with a response of status st: response.json() is called
FetchResolve(a, st) ==
    /\ tasks[a].pc = "fetching"
    /\ tasks' = [tasks EXCEPT ![a].pc = "parsing", ![a].status = st]
    /\ UNCHANGED <<isScanning, imagePreview, result, inputValue, toasts, cancels>>

\* fetch rejected: transport-level failure
FetchReject(a) ==
    /\ tasks[a].pc = "fetching"
    /\ CatchFinally(a, "fetchReject")

\* response.json() resolved with data: lines 64-83, then finally
JsonResolve(a, data) ==
    /\ tasks[a].pc = "parsing"
    /\ result' = IF HasSuggestions(data) /\ ~NormalizeThrows(data)
                 THEN Normalize(data, a)
                 ELSE result
    /\ toasts' = Toast(a, ToastTitle(data))
    /\ isScanning' = FALSE
    /\ tasks' = [tasks EXCEPT
            ![a].pc = "done",
            ![a].settle = "json",
            ![a].nsugg = IF data = Null \/ data.suggestions = Undefined
                         THEN -1 ELSE Len(data.suggestions.array),
            ![a].first = IF data = Null \/ data.suggestions = Undefined
                            \/ Len(data.suggestions.array) = 0
                         THEN Undefined ELSE data.suggestions.array[1]]
    /\ UNCHANGED <<imagePreview, inputValue, cancels>>

\* response.json() rejected: the body is not JSON
JsonReject(a) ==
    /\ tasks[a].pc = "parsing"
    /\ CatchFinally(a, "jsonReject")

(***************************************************************************)
(* handleClear; its button is rendered only while imagePreview is set.     *)
(***************************************************************************)
ClearEnabled == imagePreview # Null

HandleClear ==
    /\ ClearEnabled
    /\ imagePreview' = Null
    /\ result' = Null
    /\ inputValue' = NoFile
    /\ tasks' = [a \in Attempts |->
                    IF tasks[a].pc # "done"
                    THEN [tasks[a] EXCEPT !.cleared = TRUE]
                    ELSE tasks[a]]
    /\ UNCHANGED <<isScanning, toasts, cancels>>

Next ==
    \/ \E f \in Files \cup {NoFile} : ChangeEvent(f)
    \/ \E a \in Attempts, ok \in BOOLEAN : PreviewLoadEnd(a, ok)
    \/ \E a \in Attempts : EncodeResolve(a)
    \/ \E a \in Attempts : EncodeReject(a)
    \/ \E a \in Attempts, st \in Statuses : FetchResolve(a, st)
    \/ \E a \in Attempts : FetchReject(a)
    \/ \E a \in Attempts, data \in Bodies : JsonResolve(a, data)
    \/ \E a \in Attempts : JsonReject(a)
    \/ HandleClear

Spec == Init /\ [][Next]_vars

(***************************************************************************)
(* Fairness: every await of an attempt settles.  A FileReader always ends  *)
(* with loadend or error, fetch settles when the transport answers or      *)
(* gives up, and response.json() settles once the body has been read.      *)
(* The user is under no obligation to pick a file or to clear.             *)
(***************************************************************************)
Settle(a) ==
    /\ a \in Attempts
    /\ \/ EncodeResolve(a)
       \/ EncodeReject(a)
       \/ \E st \in Statuses : FetchResolve(a, st)
       \/ FetchReject(a)
       \/ \E data \in Bodies : JsonResolve(a, data)
       \/ JsonReject(a)

FairSpec == Spec /\ \A a \in 1..MaxCaptures : WF_vars(Settle(a))

(***************************************************************************)
(* Derived views of the state used by the properties.                      *)
(***************************************************************************)
\* The number of toasts attempt a emitted with the given title.
NotifCount(a, title) ==
    Cardinality({i \in 1..Len(toasts) :
                    toasts[i].attempt = a /\ toasts[i].title = title})

\* The number of toasts attempt a emitted.
NotifTotal(a) ==
    Cardinality({i \in 1..Len(toasts) : toasts[i].attempt = a})

\* The attempts whose async function has not returned yet.
Outstanding == {a \in Attempts : tasks[a].pc # "done"}

\* Attempt a is the latest one and has run to completion.
Ended(a) == a = Len(tasks) /\ tasks[a].pc = "done"

\* C1 as claimed: once handleClear has run while an attempt was outstanding,
\* the attempt's completion changes nothing: after it has ended, and until
\* the next capture, the result and the image are absent.
C1_ClearDiscardsResponse ==
    \A a \in Attempts :
        (Ended(a) /\ tasks[a].cleared)
            => (result = Null /\ imagePreview = Null)

\* C2 as claimed: every run of handleClear ends in Idle: no image, no
\* result, isScanning false.
C2_ClearYieldsIdle ==
    [][HandleClear
        => (imagePreview' = Null /\ result' = Null /\ isScanning' = FALSE)]_vars

\* C3: at most one classification pipeline is outstanding in every
\* reachable state.
C3_OnePipeline == Cardinality(Outstanding) <= 1

\* C3 witness: a second attempt is outstanding after the first has ended,
\* and handleClear has run during it.
C3_Witness ==
    /\ Len(tasks) >= 2
    /\ tasks[Len(tasks)].pc = "fetching"
    /\ tasks[Len(tasks)].cleared

\* C4: every attempt that enters Scanning leaves it: whichever way its
\* awaits settle, the attempt ends with isScanning false and at least one
\* notification emitted for it.
C4_LeavesScanning ==
    \A a \in 1..MaxCaptures :
        (a \in Attempts /\ tasks[a].pc # "done")
            ~> (a \in Attempts /\ tasks[a].pc = "done"
                    /\ ~isScanning /\ NotifTotal(a) >= 1)

\* C4 witness: an attempt whose encoding step failed has left Scanning with
\* a notification emitted.
C4_Witness ==
    \E a \in Attempts :
        /\ Ended(a)
        /\ tasks[a].settle = "encodeReject"
        /\ ~isScanning
        /\ NotifTotal(a) >= 1

\* C5: an attempt whose fetch rejected ends with no result stored and
\* isScanning false, having emitted exactly one notification, titled
\* "Error", and no "Plant Identified!".
C5_NetworkError ==
    \A a \in Attempts :
        (Ended(a) /\ tasks[a].settle = "fetchReject")
            => /\ result = Null
               /\ ~isScanning
               /\ NotifCount(a, TitleError) = 1
               /\ NotifCount(a, TitleIdentified) = 0
               /\ NotifTotal(a) = 1

\* C5 witness: the latest attempt ended because its fetch rejected.
C5_Witness ==
    \E a \in Attempts : Ended(a) /\ tasks[a].settle = "fetchReject"

\* C6 as claimed: a response with a non-2xx status and a parsable body ends
\* the attempt through the error path: no result, one "Error" notification,
\* neither "No Match Found" nor "Plant Identified!".
C6_NonOkIsServiceError ==
    \A a \in Attempts :
        (Ended(a) /\ tasks[a].settle = "json" /\ tasks[a].status \notin 200..299)
            => /\ result = Null
               /\ NotifCount(a, TitleError) = 1
               /\ NotifCount(a, TitleNoMatch) = 0
               /\ NotifCount(a, TitleIdentified) = 0

\* C7: a 2xx response whose suggestion list is absent or empty ends the
\* attempt with no result stored and exactly one notification, titled
\* "No Match Found".
C7_NoMatch ==
    \A a \in Attempts :
        (Ended(a) /\ tasks[a].settle = "json" /\ tasks[a].status \in 200..299
                /\ tasks[a].nsugg <= 0)
            => /\ result = Null
               /\ NotifCount(a, TitleNoMatch) = 1
               /\ NotifCount(a, TitleIdentified) = 0
               /\ NotifTotal(a) = 1

\* C7 witness: a second attempt, made without an intervening clear of the
\* input, ended on a 2xx response with an empty suggestion list.
C7_Witness ==
    /\ Len(tasks) >= 2
    /\ Ended(Len(tasks))
    /\ tasks[Len(tasks)].settle = "json"
    /\ tasks[Len(tasks)].status = 200
    /\ tasks[Len(tasks)].nsugg = 0
    /\ inputValue # NoFile

C9_ResultIsSuccessWithImage ==
    result # Null => (~isScanning /\ imagePreview # Null)

\* C10: a change event without a file changes nothing of isScanning, the
\* image, the result, the attempts and the notifications.
C10_CancelChangesNothing ==
    [][cancels' # cancels
        => UNCHANGED <<isScanning, imagePreview, result, toasts, tasks>>]_vars

\* C10 witness: a change event without a file was delivered, and a result
\* is on display.
C10_Witness == cancels > 0 /\ result # Null /\ imagePreview # Null

C14_ClearedAttemptIsSilent ==
    \A a \in Attempts :
        (Ended(a) /\ tasks[a].cleared) => NotifTotal(a) = 0

\* C16: while isScanning is true no result is held: a capture clears the
\* result of the earlier attempt before its first await, and a result is
\* stored only by the step that resets isScanning.
C16_NoResultWhileScanning == isScanning => result = Null

\* C16 witness: a later capture was accepted while the image of an earlier
\* one was still on display (no clear in between), and it is being scanned.
C16_Witness ==
    /\ Len(tasks) >= 2
    /\ isScanning
    /\ tasks[Len(tasks)].preview = "reading"
    /\ imagePreview # Null
    /\ inputValue # NoFile
    /\ result = Null

\* C17 as claimed: a result and an image that are both present belong to
\* the same capture.
C17_ResultAndImageOfSameCapture ==
    (result # Null /\ imagePreview # Null)
        => imagePreview = DataURL(tasks[result.capture].file)

\* C12 as claimed: for every probability held by the stored result, zero
\* included, a confidence is displayed: p*100 rounded to the nearest tenth,
\* followed by "%"; the stored probability is the one the service reported.
C12_ConfidenceDisplayed ==
    result # Null
        => /\ \E k \in 0..1000 :
                /\ Confidence(result) = [tenths |-> k, unit |-> "%"]
                /\ 10 * k - 5 <= result.probability
                /\ result.probability < 10 * k + 5
           /\ result.probability = tasks[result.capture].first.probability

\* The first suggestion s lacks the detail field: plant_details is missing,
\* or the field is missing inside it.
LacksDetail(s, field) ==
    \/ s.plant_details = Undefined
    \/ s.plant_details[field] = Undefined

Completes(a) == tasks[a].pc # "done" /\ tasks'[a].pc = "done"

\* One of the attempt's awaits rejected: encoding, the request or the
\* parsing of the body failed.
AwaitRejected(t) == t.settle \in {"encodeReject", "fetchReject", "jsonReject"}

\* The body parsed and its suggestion list is absent or empty.
ParsedWithoutSuggestions(t) == t.settle = "json" /\ t.nsugg <= 0

\* The body parsed and the first element of its suggestion list is null.
ParsedWithNullFirst(t) == t.settle = "json" /\ t.nsugg > 0 /\ t.first = Null

====
